---- MODULE Spec2Model ----
(***************************************************************************)
(* The token lifecycle of trakt/api.py (HttpClient, TokenAuth) and the     *)
(* device authorization flow of trakt/auth/device.py (DeviceAuth).         *)
(*                                                                         *)
(* Python values are modelled as integers: None is -1, every other         *)
(* credential value is an opaque non-negative number, OAUTH_EXPIRES_AT and *)
(* the clock count days.  A decoded JSON value or any other Python object  *)
(* is a record [type, items, status_code].                                 *)
(***************************************************************************)
EXTENDS Integers, FiniteSets, Sequences, TLC

\* ------------------------------------------------------------- bounds
\* The clock runs from 0 to MaxNow days.
MaxNow == 1
\* Nested calls of the auth hook after which Python raises RecursionError.
RecursionLimit == 2

\* ---------------------------------------------------------- constants
\* Python's None, as a credential value.
None == -1
\* A header that was never set on a request.
Absent == None - 1
\* timedelta(days=2): the proactive refresh margin, in days.
Margin == 2

Threads == {1, 2}
\* The single caller context of the synchronous library (spec section 5).
Callers == {1}

\* The HttpClient objects: "api" is the one TokenAuth.client refers to.
Clients == {"api", "aux"}
TokenAuthClient == "api"

\* The persisted keys, in the order load_config visits them.
Keys == {"APPLICATION_ID", "CLIENT_ID", "CLIENT_SECRET",
         "OAUTH_EXPIRES_AT", "OAUTH_REFRESH", "OAUTH_TOKEN"}
\* The keyword arguments refresh_token passes to store_token.
StoredKeys == {"CLIENT_ID", "CLIENT_SECRET", "OAUTH_TOKEN", "OAUTH_REFRESH",
               "OAUTH_EXPIRES_AT"}

\* ------------------------------------------------------- input values
\* Values the caller constructs the store with, values found in the file,
\* values of a refresh response, of a device token response, of the
\* DeviceAuth constructor and of the interactive prompt.
MemVal(k) == IF k = "OAUTH_EXPIRES_AT" THEN 3 ELSE 10
FileVal(k) == IF k = "OAUTH_EXPIRES_AT" THEN 2 ELSE 20
MemExpiries == {None, 0, MemVal("OAUTH_EXPIRES_AT")}

\* ------------------------------------------------------ Python values
EmptyItems == [k \in {} |-> None]
PyNone == [type |-> "NoneType", items |-> EmptyItems, status_code |-> None]
PyDict(items) == [type |-> "dict", items |-> items, status_code |-> None]
\* dict.get(key): the value, or None when the key is missing
DictGet(v, k) == IF k \in DOMAIN v.items THEN v.items[k] ELSE None
\* getattr: only a requests.Response has the attribute status_code
HasStatusCode(v) == v.type = "Response"

\* --------------------------------------------------- response bodies
Bodies == {"", "null", "{}", "token", "token-no-created_at",
           "token-no-expires_in", "device-code", "not json"}
\* The bodies of the refresh grants of a provider that gives every grant its
\* own tokens: the first and the second it accepts.
GrantBodies == <<"grant1", "grant2">>
\* json.loads succeeds on these texts
JsonValid(text) == text \in {"null", "{}", "token", "token-no-created_at",
                             "token-no-expires_in", "device-code",
                             "grant1", "grant2"}
TokenItems == [access_token |-> 30, refresh_token |-> 31,
               created_at |-> 2, expires_in |-> 5]
GrantItems(n) == [access_token |-> 30 + 10 * n, refresh_token |-> 31 + 10 * n,
                  created_at |-> 2, expires_in |-> 5 + n]
DeviceCodeItems == [device_code |-> 40, user_code |-> 41,
                    verification_url |-> 42, interval |-> 5, expires_in |-> 600]
Restrict(f, S) == [k \in S |-> f[k]]
\* json.loads(response.content.decode('UTF-8', 'ignore'))
JsonLoads(text) ==
    CASE text = "null" -> PyNone
      [] text = "{}" -> PyDict(EmptyItems)
      [] text = "token" -> PyDict(TokenItems)
      [] text = "token-no-created_at" ->
            PyDict(Restrict(TokenItems, {"access_token", "refresh_token", "expires_in"}))
      [] text = "token-no-expires_in" ->
            PyDict(Restrict(TokenItems, {"access_token", "refresh_token", "created_at"}))
      [] text = "device-code" -> PyDict(DeviceCodeItems)
      [] text = "grant1" -> PyDict(GrantItems(1))
      [] text = "grant2" -> PyDict(GrantItems(2))

\* The responses the provider answers with.
Response(status, content) == [status_code |-> status, content |-> content]
NoResponse == Response(0, "")
Responses ==
    {Response(200, b) : b \in Bodies \ {""}}
    \cup {Response(204, "")}
    \cup {Response(s, "{}") : s \in {400, 401, 404, 418, 429, 500}}
\* The token payload of a response: access token, refresh token and
\* created_at + expires_in.
TokenTriple == <<TokenItems.access_token, TokenItems.refresh_token,
                 TokenItems.created_at + TokenItems.expires_in>>

\* ------------------------------------------------------------- errors
\* HttpClient.error_map: HTTP status -> exception type.
error_map ==
    (400 :> "BadRequestException") @@ (401 :> "OAuthException")
    @@ (403 :> "ForbiddenException") @@ (404 :> "NotFoundException")
    @@ (409 :> "ConflictException") @@ (422 :> "ProcessException")
    @@ (429 :> "RateLimitException") @@ (500 :> "TraktInternalException")

\* The outcome of a call: nothing yet, a returned value or a raised exception
\* (which carries the response when it is a TraktException).
NoResult == [tag |-> "none", value |-> PyNone, exc |-> "", response |-> NoResponse]
Return(v) == [tag |-> "return", value |-> v, exc |-> "", response |-> NoResponse]
Raise(e, resp) == [tag |-> "raise", value |-> PyNone, exc |-> e, response |-> resp]

\* raise_if_needed raising the mapped error without the response
raise_if_needed_bare(resp) ==
    IF resp.status_code \in DOMAIN error_map
    THEN Raise(error_map[resp.status_code], NoResponse)
    ELSE NoResult

\* HttpClient.raise_if_needed
raise_if_needed(resp) ==
    IF resp.status_code \in DOMAIN error_map
    THEN Raise(error_map[resp.status_code], resp)
    ELSE NoResult

\* HttpClient.request, from the response on: 204 returns None, a status of
\* the error map raises, anything else is decoded and returned.
request(resp) ==
    IF resp.status_code = 204 THEN Return(PyNone)
    ELSE IF raise_if_needed(resp).tag = "raise" THEN raise_if_needed(resp)
    ELSE IF ~JsonValid(resp.content) THEN Raise("JSONDecodeError", NoResponse)
    ELSE Return(JsonLoads(resp.content))

\* HttpClient.get / post / put return request's value; delete drops it.
Methods == {"get", "post", "put", "delete"}
method_result(method, resp) ==
    IF method = "delete" /\ request(resp).tag = "return"
    THEN Return(PyNone)
    ELSE request(resp)

\* ---------------------------------------------------- credential store
\* The config file: absent, or a JSON object over some of the keys.
NoFile == [exists |-> FALSE, data |-> EmptyItems]
File(data) == [exists |-> TRUE, data |-> data]

\* load_config letting the file's value win over the store's
load_config_overwrites(st, fl) ==
    IF (st["CLIENT_ID"] # None /\ st["CLIENT_SECRET"] # None) \/ ~fl.exists
    THEN st
    ELSE [k \in Keys |-> IF k \in DOMAIN fl.data THEN fl.data[k] ELSE st[k]]

\* load_config without the early return on CLIENT_ID and CLIENT_SECRET
load_config_unguarded(st, fl) ==
    IF ~fl.exists
    THEN st
    ELSE [k \in Keys |->
            IF st[k] # None THEN st[k]
            ELSE IF k \in DOMAIN fl.data THEN fl.data[k] ELSE None]

\* TokenAuth.load_config
load_config(st, fl) ==
    IF (st["CLIENT_ID"] # None /\ st["CLIENT_SECRET"] # None) \/ ~fl.exists
    THEN st
    ELSE [k \in Keys |->
            IF st[k] # None THEN st[k]
            ELSE IF k \in DOMAIN fl.data THEN fl.data[k] ELSE None]

\* store_token writing the oauth fields only
store_token_oauth_only(kwargs) ==
    File(Restrict(kwargs, DOMAIN kwargs \cap {"OAUTH_TOKEN", "OAUTH_REFRESH",
                                              "OAUTH_EXPIRES_AT"}))

\* TokenAuth.store_token(**kwargs): the file becomes exactly kwargs
store_token(kwargs) == File(kwargs)

\* TokenAuth.validate_token, line 133: more than the margin remains
token_fresh(expires_at, current) == expires_at - current > Margin

\* the validity check not asking for a refresh token
check_due_any_refresh(st, vl) == ~vl /\ st["OAUTH_EXPIRES_AT"] # None

\* TokenAuth.get_token, lines 119-120: the validity check is due
check_due(st, vl) ==
    ~vl /\ st["OAUTH_EXPIRES_AT"] # None /\ st["OAUTH_REFRESH"] # None

\* How refresh_token ends: the store and the flag it leaves, and whether the
\* refresh was "rejected" (OAuthException swallowed), it "raised" (exc
\* propagates) or it "stored" (store_token(kwargs) is called).
RefreshEnd(s, f, o, e) ==
    [store |-> s, valid |-> f, outcome |-> o, exc |-> e,
     kwargs |-> Restrict(s, StoredKeys)]

\* the except clause letting the OAuthException through
except_reraises(st, vl) == RefreshEnd(st, vl, "raised", "OAuthException")

\* TokenAuth.refresh_token, lines 152-157: the except clause
except_OAuthException(st, vl) == RefreshEnd(st, vl, "rejected", "")

\* refresh_token dropping whatever the provider answers
refresh_token_drops_answer(st, vl, resp) == except_OAuthException(st, vl)

\* TokenAuth.refresh_token from the response on (lines 150-173)
refresh_token(st, vl, resp) ==
    LET r == method_result("post", resp)
        v == r.value
        tok == [st EXCEPT !["OAUTH_TOKEN"] = DictGet(v, "access_token"),
                          !["OAUTH_REFRESH"] = DictGet(v, "refresh_token")]
        new == [tok EXCEPT !["OAUTH_EXPIRES_AT"] =
                    DictGet(v, "created_at") + DictGet(v, "expires_in")]
    IN  IF r.tag = "raise" /\ r.exc = "OAuthException"
        THEN except_OAuthException(st, vl)
        ELSE IF r.tag = "raise" THEN RefreshEnd(st, vl, "raised", r.exc)
        ELSE IF v.type # "dict" THEN RefreshEnd(st, vl, "raised", "AttributeError")
        ELSE IF DictGet(v, "created_at") = None \/ DictGet(v, "expires_in") = None
        THEN RefreshEnd(tok, vl, "raised", "TypeError")
        ELSE RefreshEnd(new, TRUE, "stored", "")

\* ---------------------------------------------------------------- state
VARIABLES
    store,        \* the TokenAuth dict: the six persisted keys
    valid,        \* the TokenAuth dict: OAUTH_TOKEN_VALID
    file,         \* the config file at config_path
    now,          \* the clock, in days
    auth,         \* HttpClient.auth of each client: TRUE when it is the TokenAuth
    pc,           \* where each thread is: idle, hook, refreshing, sending, done
    op,           \* the call each thread is in: a method, device_code, device_token
    cl,           \* the client the thread's request goes through
    depth,        \* nested invocations of the auth hook below the current one
    hdr,          \* the auth headers set on the thread's outgoing request
    dev,          \* the locals of DeviceAuth.authenticate
    result,       \* what the thread's call returned or raised
    refreshCalls, \* history: POST /oauth/token requests sent during the request
    pre,          \* history: how the request's authentication step started,
                  \*          and the refresh token its refresh call carried
    lastResp,     \* history: the last response to a request of the thread's call
    answered,     \* history: the thread's request has got its response
    refreshResp,  \* history: the response to the request's last refresh call
    given,        \* history: the fields the caller last passed to store_token
    accepted      \* the provider: the refresh grants it has accepted so far

vars == <<store, valid, file, now, auth, pc, op, cl, depth, hdr, dev, result,
          refreshCalls, pre, lastResp, answered, refreshResp, given, accepted>>

\* calls is history: how often the hook has set the headers of the request.
NoHeaders == [key |-> Absent, bearer |-> Absent, calls |-> 0]
\* the hook sending the token as the api key
Headers_token_as_key(st) ==
    [key |-> st["OAUTH_TOKEN"], bearer |-> st["OAUTH_TOKEN"], calls |-> 1]
\* TokenAuth.__call__: the headers built from get_token's pair
Headers(st) == [key |-> st["CLIENT_ID"], bearer |-> st["OAUTH_TOKEN"], calls |-> 1]
\* The locals of authenticate (device_code, interval, self.store) and its
\* history: the first interval, the polls sent, the 429 answers, the seconds slept.
NoDevice == [device_code |-> None, interval |-> 0, store |-> FALSE,
             first |-> 0, polls |-> 0, slow |-> 0, slept |-> 0]
NoPre == [cls |-> "none", hooked |-> FALSE, sent |-> None]

\* The params TokenAuth is constructed with: each field given or not.
InitStores ==
    {s \in [Keys -> {None, 10} \cup MemExpiries] :
        /\ s["OAUTH_EXPIRES_AT"] \in MemExpiries
        /\ \A k \in Keys \ {"OAUTH_EXPIRES_AT"} : s[k] \in {None, MemVal(k)}}
\* The config file the system starts with: none, or one over these keys.
FileKeySets == {Keys, {"OAUTH_TOKEN", "OAUTH_REFRESH", "OAUTH_EXPIRES_AT"}}
InitFiles == {NoFile} \cup {File([k \in S |-> FileVal(k)]) : S \in FileKeySets}

\* Every thread idle, no call made yet.
InitCalls ==
    /\ pc = [t \in Threads |-> "idle"]
    /\ op = [t \in Threads |-> "none"]
    /\ cl = [t \in Threads |-> TokenAuthClient]
    /\ depth = [t \in Threads |-> 0]
    /\ hdr = [t \in Threads |-> NoHeaders]
    /\ dev = [t \in Threads |-> NoDevice]
    /\ result = [t \in Threads |-> NoResult]
    /\ refreshCalls = [t \in Threads |-> 0]
    /\ pre = [t \in Threads |-> NoPre]
    /\ lastResp = [t \in Threads |-> NoResponse]
    /\ answered = [t \in Threads |-> FALSE]
    /\ refreshResp = [t \in Threads |-> NoResponse]
    /\ given = EmptyItems
    /\ accepted = 0

\* TokenAuth.__init__ on params, and the two clients as the application
\* built them: "aux" signs its requests with the TokenAuth, "api" (the
\* TokenAuth's own client) starts as HttpClient.__init__ leaves it.
Init ==
    /\ store \in InitStores
    /\ valid = FALSE
    /\ file \in InitFiles
    /\ now = 0
    /\ auth = [c \in Clients |-> c # TokenAuthClient]
    /\ InitCalls

\* ------------------------------------------------------ action fragments
\* HttpClient.request up to session.request (lines 63-69): with an auth hook
\* the session calls it while preparing the request, else the request goes out.
StartCall(t, c) ==
    /\ pc' = [pc EXCEPT ![t] = IF auth[c] THEN "hook" ELSE "sending"]
    /\ cl' = [cl EXCEPT ![t] = c]
    /\ depth' = [depth EXCEPT ![t] = 0]
    /\ hdr' = [hdr EXCEPT ![t] = NoHeaders]
    /\ refreshCalls' = [refreshCalls EXCEPT ![t] = 0]
    /\ pre' = [pre EXCEPT ![t] = NoPre]
    /\ answered' = [answered EXCEPT ![t] = FALSE]
    /\ refreshResp' = [refreshResp EXCEPT ![t] = NoResponse]

\* The thread's call ends: it returns or raises r.
Finish(t, r) ==
    /\ pc' = [pc EXCEPT ![t] = "done"]
    /\ depth' = [depth EXCEPT ![t] = 0]
    /\ result' = [result EXCEPT ![t] = r]
    /\ UNCHANGED <<op, cl, hdr, refreshCalls>>

\* TokenAuth.__call__ returns (lines 107-111) at nesting level depth[t]: the
\* headers are set on the request being prepared, which is then sent.  At
\* level 0 that is the thread's request, below it the refresh request of the
\* enclosing refresh_token.
HookReturn(t, st) ==
    /\ pc' = [pc EXCEPT ![t] = IF depth[t] = 0 THEN "sending" ELSE "refreshing"]
    /\ depth' = [depth EXCEPT ![t] = IF depth[t] = 0 THEN 0 ELSE depth[t] - 1]
    /\ hdr' = [hdr EXCEPT ![t] = IF depth[t] = 0
                                 THEN [Headers(st) EXCEPT !.calls = hdr[t].calls + 1]
                                 ELSE @]
    /\ refreshCalls' = [refreshCalls EXCEPT ![t] = IF depth[t] = 0 THEN @ ELSE @ + 1]
    /\ UNCHANGED <<op, cl, result>>

\* ---------------------------------------------------------------- actions
\* HttpClient.set_auth on the TokenAuth's own client
SetAuth(t, hook) ==
    /\ pc[t] = "idle"
    /\ auth[TokenAuthClient] # hook
    /\ auth' = [auth EXCEPT ![TokenAuthClient] = hook]
    /\ UNCHANGED <<store, valid, file, now, pc, op, cl, depth, hdr, dev, result,
                   refreshCalls, pre, lastResp, answered, refreshResp, given,
                   accepted>>

\* A day passes.  The clock is read by validate_token alone, within one
\* step of the hook, so days pass between the calls.
Tick ==
    /\ \A t \in Threads : pc[t] = "idle"
    /\ now < MaxNow
    /\ now' = now + 1
    /\ UNCHANGED <<store, valid, file, auth, pc, op, cl, depth, hdr, dev, result,
                   refreshCalls, pre, lastResp, answered, refreshResp, given,
                   accepted>>

\* TokenAuth.load_config called by the caller
LoadConfig(t) ==
    /\ pc[t] = "idle"
    /\ store' = load_config(store, file)
    /\ UNCHANGED <<valid, file, now, auth, pc, op, cl, depth, hdr, dev, result,
                   refreshCalls, pre, lastResp, answered, refreshResp, given,
                   accepted>>

\* The call is over: the caller has its value or its exception, the locals
\* of the call are gone.
Done(t) ==
    /\ pc[t] = "done"
    /\ pc' = [pc EXCEPT ![t] = "idle"]
    /\ op' = [op EXCEPT ![t] = "none"]
    /\ cl' = [cl EXCEPT ![t] = TokenAuthClient]
    /\ hdr' = [hdr EXCEPT ![t] = NoHeaders]
    /\ dev' = [dev EXCEPT ![t] = NoDevice]
    /\ result' = [result EXCEPT ![t] = NoResult]
    /\ refreshCalls' = [refreshCalls EXCEPT ![t] = 0]
    /\ pre' = [pre EXCEPT ![t] = NoPre]
    /\ lastResp' = [lastResp EXCEPT ![t] = NoResponse]
    /\ answered' = [answered EXCEPT ![t] = FALSE]
    /\ refreshResp' = [refreshResp EXCEPT ![t] = NoResponse]
    /\ UNCHANGED <<store, valid, file, now, auth, depth, given, accepted>>

\* HttpClient.get / post / put / delete
Request(t, c, method) ==
    /\ pc[t] = "idle"
    /\ op' = [op EXCEPT ![t] = method]
    /\ StartCall(t, c)
    /\ UNCHANGED <<store, valid, file, now, auth, dev, result, lastResp, given,
                   accepted>>

\* TokenAuth.__call__ / get_token / validate_token, and refresh_token up to
\* its client.post: the hook runs for the request being prepared.
GetToken(t) ==
    /\ pc[t] = "hook"
    /\ LET loaded == load_config(store, file)
           due == check_due(loaded, valid)
           fresh == token_fresh(loaded["OAUTH_EXPIRES_AT"], now)
       IN  /\ store' = loaded
           /\ pre' = [pre EXCEPT ![t] =
                        IF depth[t] # 0 THEN @
                        ELSE [cls |-> IF ~check_due(store, valid) THEN "na"
                                      ELSE IF store["OAUTH_EXPIRES_AT"] - now > Margin
                                      THEN "fresh" ELSE "stale",
                              hooked |-> auth[TokenAuthClient],
                              sent |-> IF due /\ ~fresh /\ ~auth[TokenAuthClient]
                                       THEN loaded["OAUTH_REFRESH"] ELSE None]]
           /\ IF ~due \/ fresh
              THEN \* no refresh: get_token returns the pair
                   /\ valid' = (valid \/ due)
                   /\ HookReturn(t, loaded)
              ELSE IF ~auth[TokenAuthClient]
              THEN \* the refresh request goes out
                   /\ valid' = valid
                   /\ pc' = [pc EXCEPT ![t] = "refreshing"]
                   /\ refreshCalls' = [refreshCalls EXCEPT ![t] = @ + 1]
                   /\ UNCHANGED <<op, cl, depth, hdr, result>>
              ELSE IF depth[t] + 1 < RecursionLimit
              THEN \* preparing the refresh request calls the hook again
                   /\ valid' = valid
                   /\ depth' = [depth EXCEPT ![t] = @ + 1]
                   /\ UNCHANGED <<pc, op, cl, hdr, result, refreshCalls>>
              ELSE /\ valid' = valid
                   /\ Finish(t, Raise("RecursionError", NoResponse))
    /\ UNCHANGED <<file, now, auth, dev, lastResp, answered, refreshResp, given,
                   accepted>>

\* TokenAuth.refresh_token from the response of POST /oauth/token on, then
\* the rest of the hook.  writeOk: whether open(config_path, 'w') succeeds.
RefreshResponse(t, resp, writeOk) ==
    /\ pc[t] = "refreshing"
    /\ LET o == refresh_token(store, valid, resp)
       IN  /\ store' = o.store
           /\ valid' = o.valid
           /\ file' = IF o.outcome = "stored" /\ writeOk
                      THEN store_token(o.kwargs) ELSE file
           /\ IF o.outcome = "raised"
              THEN Finish(t, Raise(o.exc, IF o.exc \in {"AttributeError", "TypeError"}
                                         THEN NoResponse
                                         ELSE method_result("post", resp).response))
              ELSE IF o.outcome = "stored" /\ ~writeOk
              THEN Finish(t, Raise("OSError", NoResponse))
              ELSE HookReturn(t, o.store)
    /\ refreshResp' = [refreshResp EXCEPT ![t] = resp]
    /\ UNCHANGED <<now, auth, dev, pre, lastResp, answered, given, accepted>>

\* HttpClient.request from the response on, for get / post / put / delete
Respond(t, resp) ==
    /\ pc[t] = "sending"
    /\ op[t] \in Methods
    /\ Finish(t, method_result(op[t], resp))
    /\ lastResp' = [lastResp EXCEPT ![t] = resp]
    /\ answered' = [answered EXCEPT ![t] = TRUE]
    /\ UNCHANGED <<store, valid, file, now, auth, dev, pre, refreshResp, given,
                   accepted>>

\* ------------------------------------------------------------ device flow
\* DeviceAuth.update_tokens: the pair written to the store.  With neither
\* argument given get_client_info() prompts for both.
PromptedInfo == <<MemVal("CLIENT_ID"), MemVal("CLIENT_SECRET")>>
update_tokens(st, client_id, client_secret) ==
    LET info == IF client_id = None /\ client_secret = None
                THEN PromptedInfo ELSE <<client_id, client_secret>>
    IN  [st EXCEPT !["CLIENT_ID"] = info[1], !["CLIENT_SECRET"] = info[2]]

\* DeviceAuth.get_device_token, lines 123-127: config.update(...)
config_update(st, v) ==
    [st EXCEPT !["OAUTH_TOKEN"] = DictGet(v, "access_token"),
               !["OAUTH_REFRESH"] = DictGet(v, "refresh_token"),
               !["OAUTH_EXPIRES_AT"] =
                    DictGet(v, "created_at") + DictGet(v, "expires_in")]

\* DeviceAuth.get_device_token, line 130: config.store()
config_store(st) == File(st)

\* How get_device_token ends: the store and the file it leaves, and what it
\* returns or raises.
DeviceTokenEnd(s, f, r) == [store |-> s, file |-> f, result |-> r]

\* get_device_token updating the config before it looks at the status
get_device_token_eager(st, fl, storeFlag, resp) ==
    LET r == method_result("post", resp)
    IN  DeviceTokenEnd(config_update(st, r.value), fl,
                       IF r.tag = "raise" THEN r
                       ELSE IF ~HasStatusCode(r.value)
                       THEN Raise("AttributeError", NoResponse)
                       ELSE Return(r.value))

\* DeviceAuth.get_device_token from the response of its post on (lines
\* 118-132)
get_device_token(st, fl, storeFlag, resp) ==
    LET r == method_result("post", resp)
        v == r.value
    IN  IF r.tag = "raise" THEN DeviceTokenEnd(st, fl, r)
        ELSE IF ~HasStatusCode(v)
        THEN DeviceTokenEnd(st, fl, Raise("AttributeError", NoResponse))
        ELSE DeviceTokenEnd(
                IF v.status_code = 200 THEN config_update(st, v) ELSE st,
                IF v.status_code = 200 /\ storeFlag
                THEN config_store(config_update(st, v)) ELSE fl,
                Return(v))

\* DeviceAuth.authenticate, lines 61-72: what the loop does with the status
\* of a poll response: whether it breaks, and the interval it sleeps.
poll_step(status_code, interval) ==
    IF status_code = 200 THEN [break |-> TRUE, interval |-> interval]
    ELSE IF status_code = 429 THEN [break |-> FALSE, interval |-> interval * 2]
    ELSE IF status_code # 400 THEN [break |-> TRUE, interval |-> interval]
    ELSE [break |-> FALSE, interval |-> interval]

\* DeviceAuth.authenticate up to the request of get_device_code
Authenticate(t, c, client_id, client_secret, storeFlag) ==
    /\ pc[t] = "idle"
    /\ store' = update_tokens(store, client_id, client_secret)
    /\ op' = [op EXCEPT ![t] = "device_code"]
    /\ dev' = [dev EXCEPT ![t] = [NoDevice EXCEPT !.store = storeFlag]]
    /\ StartCall(t, c)
    /\ UNCHANGED <<valid, file, now, auth, result, lastResp, given, accepted>>

\* DeviceAuth.get_device_code from its response on (lines 85-94), lines
\* 54-55 of authenticate and the request of the first poll
DeviceCodeResponse(t, resp) ==
    /\ pc[t] = "sending"
    /\ op[t] = "device_code"
    /\ LET r == method_result("post", resp)
           v == r.value
           raised(x) == /\ Finish(t, x)
                        /\ answered' = [answered EXCEPT ![t] = TRUE]
                        /\ UNCHANGED <<dev, pre, refreshResp>>
       IN  IF r.tag = "raise" THEN raised(r)
           ELSE IF v.type # "dict" THEN raised(Raise("AttributeError", NoResponse))
           ELSE IF ~({"device_code", "interval"} \subseteq DOMAIN v.items)
           THEN raised(Raise("KeyError", NoResponse))
           ELSE /\ dev' = [dev EXCEPT ![t].device_code = v.items["device_code"],
                                      ![t].interval = v.items["interval"],
                                      ![t].first = v.items["interval"],
                                      ![t].polls = 1]
                /\ op' = [op EXCEPT ![t] = "device_token"]
                /\ StartCall(t, cl[t])
                /\ UNCHANGED result
    /\ lastResp' = [lastResp EXCEPT ![t] = resp]
    /\ UNCHANGED <<store, valid, file, now, auth, given, accepted>>

\* DeviceAuth.get_device_token from the response of its post on (lines
\* 118-132), then the loop body of authenticate (lines 61-72) with its sleep
\* and the request of the next poll
PollResponse(t, resp) ==
    /\ pc[t] = "sending"
    /\ op[t] = "device_token"
    /\ LET g == get_device_token(store, file, dev[t].store, resp)
           v == g.result.value
           step == poll_step(v.status_code, dev[t].interval)
           slow == dev[t].slow + (IF resp.status_code = 429 THEN 1 ELSE 0)
           ended(x) == /\ Finish(t, x)
                       /\ dev' = [dev EXCEPT ![t].slow = slow]
                       /\ answered' = [answered EXCEPT ![t] = TRUE]
                       /\ UNCHANGED <<pre, refreshResp>>
       IN  /\ store' = g.store
           /\ file' = g.file
           /\ IF g.result.tag = "raise" THEN ended(g.result)
              ELSE IF step.break THEN ended(Return(v))
              ELSE /\ dev' = [dev EXCEPT
                                ![t].interval = step.interval,
                                ![t].slow = slow,
                                ![t].slept = @ + step.interval,
                                ![t].polls = @ + 1]
                   /\ StartCall(t, cl[t])
                   /\ UNCHANGED <<op, result>>
    /\ lastResp' = [lastResp EXCEPT ![t] = resp]
    /\ UNCHANGED <<valid, now, auth, given, accepted>>

\* ------------------------------------------------------------------- spec
Step(t) ==
    \/ \E hook \in BOOLEAN : SetAuth(t, hook)
    \/ LoadConfig(t)
    \/ Done(t)
    \/ \E c \in Clients, m \in Methods : Request(t, c, m)
    \/ GetToken(t)
    \/ \E resp \in Responses, writeOk \in BOOLEAN : RefreshResponse(t, resp, writeOk)
    \/ \E resp \in Responses : Respond(t, resp)
    \/ \E c \in Clients, id \in {None, MemVal("CLIENT_ID")},
          secret \in {None, MemVal("CLIENT_SECRET")}, storeFlag \in BOOLEAN :
            Authenticate(t, c, id, secret, storeFlag)
    \/ \E resp \in Responses : DeviceCodeResponse(t, resp)
    \/ \E resp \in Responses : PollResponse(t, resp)

Next == Tick \/ \E t \in Callers : Step(t)

Spec == Init /\ [][Next]_vars

\* load_config on its own: every store over every file, the file holding any
\* subset of the keys.
InitLoad ==
    /\ store \in {s \in [Keys -> {None, 10, MemVal("OAUTH_EXPIRES_AT")}] :
                    \A k \in Keys : s[k] \in {None, MemVal(k)}}
    /\ valid = FALSE
    /\ file \in {NoFile} \cup {File([k \in S |-> FileVal(k)]) : S \in SUBSET Keys}
    /\ now = 0
    /\ auth = [c \in Clients |-> c # TokenAuthClient]
    /\ InitCalls

NextLoad == \E t \in Callers : LoadConfig(t)

SpecLoad == InitLoad /\ [][NextLoad]_vars

\* store_token followed by load_config on a TokenAuth constructed with no
\* field set: the fields a caller may pass, each key given or not, each
\* value None or a value.
EmptyStore == [k \in Keys |-> None]
StoreFields ==
    UNION {[S -> {None, 20, FileVal("OAUTH_EXPIRES_AT")}] : S \in SUBSET Keys}
KwargsSets == {kw \in StoreFields : \A k \in DOMAIN kw : kw[k] \in {None, FileVal(k)}}

\* TokenAuth.store_token called by the caller
StoreToken(t, kwargs) ==
    /\ pc[t] = "idle"
    /\ file' = store_token(kwargs)
    /\ given' = kwargs
    /\ UNCHANGED <<store, valid, now, auth, pc, op, cl, depth, hdr, dev, result,
                   refreshCalls, pre, lastResp, answered, refreshResp, accepted>>

\* TokenAuth.__init__ with params holding no field: a fresh store
Construct(t) ==
    /\ pc[t] = "idle"
    /\ store' = EmptyStore
    /\ valid' = FALSE
    /\ UNCHANGED <<file, now, auth, pc, op, cl, depth, hdr, dev, result,
                   refreshCalls, pre, lastResp, answered, refreshResp, given,
                   accepted>>

InitRound ==
    /\ store = EmptyStore
    /\ valid = FALSE
    /\ file = NoFile
    /\ now = 0
    /\ auth = [c \in Clients |-> c # TokenAuthClient]
    /\ InitCalls

NextRound ==
    \E t \in Callers :
        \/ \E kwargs \in KwargsSets : StoreToken(t, kwargs)
        \/ LoadConfig(t)
        \/ Construct(t)

SpecRound == InitRound /\ [][NextRound]_vars

\* Two requests at once on one store, through the client that signs with
\* the TokenAuth.  The provider answers a refresh call when it has handled
\* it; the answer reaches the thread later.
ProviderGrants(t) ==
    /\ pc[t] = "refreshing"
    /\ refreshResp[t] = NoResponse
    /\ accepted < Len(GrantBodies)
    /\ accepted' = accepted + 1
    /\ refreshResp' = [refreshResp EXCEPT ![t] = Response(200, GrantBodies[accepted + 1])]
    /\ UNCHANGED <<store, valid, file, now, auth, pc, op, cl, depth, hdr, dev,
                   result, refreshCalls, pre, lastResp, answered, given>>

ProviderRejects(t) ==
    /\ pc[t] = "refreshing"
    /\ refreshResp[t] = NoResponse
    /\ refreshResp' = [refreshResp EXCEPT ![t] = Response(401, "{}")]
    /\ UNCHANGED <<store, valid, file, now, auth, pc, op, cl, depth, hdr, dev,
                   result, refreshCalls, pre, lastResp, answered, given, accepted>>

\* client.post of refresh_token returns or raises in thread t
HandleRefresh(t, writeOk) ==
    /\ refreshResp[t] # NoResponse
    /\ RefreshResponse(t, refreshResp[t], writeOk)

\* The store holds a token that is due for a refresh.
InitConc ==
    /\ store \in {s \in InitStores :
                    /\ s["OAUTH_EXPIRES_AT"] = 0
                    /\ \A k \in StoredKeys : s[k] # None}
    /\ valid = FALSE
    /\ file \in InitFiles
    /\ now = 0
    /\ auth = [c \in Clients |-> c # TokenAuthClient]
    /\ InitCalls

NextConc ==
    \E t \in Threads :
        \/ \E c \in Clients \ {TokenAuthClient} : Request(t, c, "get")
        \/ GetToken(t)
        \/ ProviderGrants(t)
        \/ ProviderRejects(t)
        \/ \E writeOk \in BOOLEAN : HandleRefresh(t, writeOk)
        \/ \E resp \in {Response(200, "{}"), Response(401, "{}")} : Respond(t, resp)
        \/ Done(t)

SpecConc == InitConc /\ [][NextConc]_vars

\* ----------------------------------------------------------------- claims
\* The oauth fields of a store or of a file's object.
Triple(f) == <<f["OAUTH_TOKEN"], f["OAUTH_REFRESH"], f["OAUTH_EXPIRES_AT"]>>
\* Thread t took the step.
Moved(t) ==
    \/ pc'[t] # pc[t]
    \/ depth'[t] # depth[t]
    \/ op'[t] # op[t]
    \/ dev'[t] # dev[t]
\* The authentication step of t's request is over: the request is on the
\* wire, or the call ended.
AuthStepOver(t) == pc[t] \in {"sending", "done"}

\* C1: a request whose authentication step starts with OAUTH_TOKEN_VALID
\* false and expiry and refresh token known, the TokenAuth's client having
\* the TokenAuth as its auth hook: with more than two days left no refresh
\* call is sent and the token is marked valid, otherwise exactly one is sent.
C1_OneRefreshPerRequest ==
    \A t \in Threads :
        (AuthStepOver(t) /\ pre[t].hooked /\ pre[t].cls \in {"fresh", "stale"}) =>
            IF pre[t].cls = "fresh"
            THEN refreshCalls[t] = 0 /\ valid
            ELSE refreshCalls[t] = 1

\* The same with the TokenAuth's client sending its requests unsigned.
C1_OneRefreshUnhooked ==
    \A t \in Threads :
        (AuthStepOver(t) /\ ~pre[t].hooked /\ pre[t].cls \in {"fresh", "stale"}) =>
            IF pre[t].cls = "fresh"
            THEN refreshCalls[t] = 0 /\ valid
            ELSE refreshCalls[t] = 1

\* C2: the answer to a refresh call either leaves token, refresh token and
\* expiry as they were or replaces all three by those of the response, and
\* when the step goes on after replacing them the file holds the same three.
C2_RefreshAllOrNothing ==
    [][\A t \in Threads :
        (pc[t] = "refreshing" /\ Moved(t)) =>
            \/ Triple(store') = Triple(store)
            \/ /\ refreshResp'[t].content = "token"
               /\ Triple(store') = TokenTriple
               /\ pc'[t] # "done" => (file'.exists /\ Triple(file'.data) = Triple(store'))
      ]_vars

\* client.post raises OAuthException on the response.
Rejected(resp) ==
    /\ method_result("post", resp).tag = "raise"
    /\ method_result("post", resp).exc = "OAuthException"

\* C3: a refresh call answered with the status of OAuthException leaves the
\* store, OAUTH_TOKEN_VALID and the file as they were, raises nothing, and
\* the request the hook ran for is sent with the headers of that store.
C3_RejectedRefreshKeepsState ==
    [][\A t \in Threads :
        (pc[t] = "refreshing" /\ Moved(t) /\ Rejected(refreshResp'[t])) =>
            /\ store' = store
            /\ valid' = valid
            /\ file' = file
            /\ result'[t] = NoResult
            /\ depth[t] = 0 => (pc'[t] = "sending" /\ hdr'[t] = Headers(store))
      ]_vars
\* A rejected refresh behind it, the request is on the wire with the old token.
C3_Witness ==
    \E t \in Threads :
        /\ pc[t] = "sending"
        /\ Rejected(refreshResp[t])
        /\ refreshCalls[t] = 1
        /\ ~valid
        /\ hdr[t].bearer = store["OAUTH_TOKEN"]
        /\ hdr[t].bearer # None

\* A poll of the device flow is answered: the step t takes on lastResp'[t].
PollAnswered(t) == pc[t] = "sending" /\ op[t] = "device_token" /\ Moved(t)

\* C4: a poll answered 200 with a token payload ends the loop with success:
\* the store holds the payload's token, refresh token and created_at +
\* expires_in, nothing more is polled or slept, and the file is rewritten
\* with the store exactly when the store flag was given.
C4_SuccessfulPollStoresToken ==
    [][\A t \in Threads :
        (PollAnswered(t) /\ lastResp'[t] = Response(200, "token")) =>
            /\ pc'[t] = "done"
            /\ result'[t].tag = "return"
            /\ Triple(store') = TokenTriple
            /\ dev'[t].polls = dev[t].polls
            /\ dev'[t].slept = dev[t].slept
            /\ file' = IF dev[t].store THEN config_store(store') ELSE file
      ]_vars

\* C5: the interval is the first interval times 2 to the number of 429
\* answers; on a 400 or a 429 the loop goes on to the next poll after
\* sleeping the interval, doubled first on a 429.
C5_IntervalDoublesOn429 ==
    [][\A t \in Threads :
        /\ op'[t] = "device_token" =>
                dev'[t].interval = dev'[t].first * 2 ^ dev'[t].slow
        /\ (PollAnswered(t) /\ lastResp'[t].status_code \in {400, 429}) =>
            /\ pc'[t] # "done"
            /\ dev'[t].polls = dev[t].polls + 1
            /\ dev'[t].interval = IF lastResp'[t].status_code = 429
                                  THEN 2 * dev[t].interval ELSE dev[t].interval
            /\ dev'[t].slept = dev[t].slept + dev'[t].interval
      ]_vars

\* C6: a poll answered with any status but 200, 400 and 429 ends the loop
\* at once: no further poll and no sleep, store and file as they were, and
\* authenticate returns the response instead of raising.
C6_TerminalPollReturns ==
    [][\A t \in Threads :
        (PollAnswered(t) /\ lastResp'[t].status_code \notin {200, 400, 429}) =>
            /\ pc'[t] = "done"
            /\ result'[t].tag = "return"
            /\ dev'[t].polls = dev[t].polls
            /\ dev'[t].slept = dev[t].slept
            /\ store' = store
            /\ file' = file
      ]_vars

\* C7: a poll answered 400 or 429 never makes the device flow raise: the
\* loop gets a response it can read the status of and polls again.
C7_PendingPollNeverRaises ==
    \A t \in Threads :
        (pc[t] = "done" /\ op[t] = "device_token" /\ answered[t]
         /\ lastResp[t].status_code \in {400, 429}) =>
            result[t].tag # "raise"

\* C8: a request of get / post / put / delete, of the device flow or of the
\* token refresh that is answered with a status of the error map ends with
\* the error mapped from the status, holding that response, and no payload.
C8_FailureStatusRaises ==
    \A t \in Threads :
        /\ (pc[t] = "done" /\ answered[t]
            /\ lastResp[t].status_code \in DOMAIN error_map \ {204}) =>
                result[t] = Raise(error_map[lastResp[t].status_code], lastResp[t])
        /\ (pc[t] = "done" /\ ~answered[t]
            /\ refreshResp[t].status_code \in DOMAIN error_map \ {204}
            /\ ~Rejected(refreshResp[t])) =>
                result[t] = Raise(error_map[refreshResp[t].status_code], refreshResp[t])
\* A delete answered 429 raised RateLimitException holding the response.
C8_Witness ==
    \E t \in Threads :
        /\ pc[t] = "done"
        /\ op[t] = "delete"
        /\ answered[t]
        /\ lastResp[t].status_code = 429
        /\ result[t].tag = "raise"
        /\ result[t].exc = "RateLimitException"
        /\ result[t].response = lastResp[t]

\* What a call answered 204 returns.
NoContentResult == request(Response(204, "")).value

\* C9: what a call returns for a 204 differs from everything a call answered
\* with another status returns.
C9_NoContentDistinct ==
    \A t \in Threads :
        (pc[t] = "done" /\ op[t] \in Methods /\ answered[t]
         /\ lastResp[t].status_code # 204 /\ result[t].tag = "return") =>
            result[t].value # NoContentResult

\* C10: load_config changes no field that is not None.
C10_LoadKeepsSetFields ==
    [][\A k \in Keys : store[k] # None => store'[k] = store[k]]_vars
\* load_config filled one field from the file and kept another one, for
\* which the file holds a different value.
C10_Witness ==
    \E k1, k2 \in Keys :
        /\ file.exists
        /\ store[k1] = FileVal(k1)
        /\ store[k2] = MemVal(k2)
        /\ k2 \in DOMAIN file.data
        /\ file.data[k2] # store[k2]

\* C11: load_config on a store with every field unset, after store_token
\* wrote the fields given, leaves the store holding the given value of every
\* given field.
C11_StoreLoadRoundTrip ==
    [][(store = EmptyStore /\ file.exists /\ file' = file /\ given' = given) =>
            \A k \in DOMAIN given : store'[k] = given[k]]_vars
\* The store holds what was given, one field given with a value, one given
\* as None and one not given.
C11_Witness ==
    /\ file.exists
    /\ \A k \in DOMAIN given : store[k] = given[k]
    /\ \E k1, k2, k3 \in Keys :
        /\ k1 \in DOMAIN given /\ given[k1] # None
        /\ k2 \in DOMAIN given /\ given[k2] = None
        /\ k3 \notin DOMAIN given

\* C12: OAUTH_TOKEN_VALID is true only while OAUTH_EXPIRES_AT is known and
\* more than the margin after the clock.
C12_ValidOnlyWhileFresh ==
    valid => /\ store["OAUTH_EXPIRES_AT"] # None
             /\ token_fresh(store["OAUTH_EXPIRES_AT"], now)

\* C13: a request that is on the wire through a client with the TokenAuth as
\* auth hook has had its headers set by the hook, once: trakt-api-key is the
\* store's CLIENT_ID and the bearer is the store's OAUTH_TOKEN, which is the
\* access token of the refresh response when the step stored a refresh and
\* the token held (or loaded from the file) before otherwise.
C13_AttachOnceBeforeSend ==
    [][\A t \in Threads :
        (pc'[t] = "sending" /\ auth'[cl'[t]]) =>
            /\ hdr'[t].calls = 1
            /\ hdr'[t].key = store'["CLIENT_ID"]
            /\ hdr'[t].bearer = store'["OAUTH_TOKEN"]
            /\ (pc[t] = "refreshing" /\ Moved(t)) =>
                    hdr'[t].bearer =
                        IF refresh_token(store, valid, refreshResp'[t]).outcome = "stored"
                        THEN DictGet(JsonLoads(refreshResp'[t].content), "access_token")
                        ELSE store["OAUTH_TOKEN"]
            /\ (pc[t] = "hook" /\ Moved(t)) =>
                    hdr'[t].bearer = load_config(store, file)["OAUTH_TOKEN"]
      ]_vars
\* A request is on the wire with the token of the refresh its step stored.
C13_Witness ==
    \E t \in Threads :
        /\ pc[t] = "sending"
        /\ auth[cl[t]]
        /\ refreshCalls[t] = 1
        /\ refreshResp[t] = Response(200, "token")
        /\ hdr[t].bearer = TokenItems.access_token
        /\ hdr[t].key = MemVal("CLIENT_ID")

\* No refresh path: the flag is false and the expiry or the refresh token is
\* unknown.
NoRefreshPath(st, vl) ==
    ~vl /\ (st["OAUTH_EXPIRES_AT"] = None \/ st["OAUTH_REFRESH"] = None)
\* The hook of t's request runs.
HookRuns(t) == pc[t] = "hook" /\ depth[t] = 0 /\ Moved(t)

\* C14 as stated: a step that starts with no refresh path sends no refresh
\* call, changes no field, writes no file, raises nothing and sends the
\* request with the token the store held.
C14_SoftFailFromStart ==
    [][\A t \in Threads :
        (HookRuns(t) /\ NoRefreshPath(store, valid)) =>
            /\ pc'[t] = "sending"
            /\ result'[t] = NoResult
            /\ refreshCalls'[t] = 0
            /\ store' = store
            /\ valid' = valid
            /\ file' = file
            /\ hdr'[t].bearer = store["OAUTH_TOKEN"]
      ]_vars

\* C14: a step with no refresh path once load_config has run sends no
\* refresh call, changes no field but those load_config filled, writes no
\* file, raises nothing and sends the request with the token of that store.
C14_SoftFailAfterLoad ==
    [][\A t \in Threads :
        (HookRuns(t) /\ NoRefreshPath(load_config(store, file), valid)) =>
            /\ pc'[t] = "sending"
            /\ result'[t] = NoResult
            /\ refreshCalls'[t] = 0
            /\ store' = load_config(store, file)
            /\ valid' = valid
            /\ file' = file
            /\ hdr'[t].bearer = store'["OAUTH_TOKEN"]
      ]_vars
\* A request is on the wire with a token although the expiry is in the past
\* and there is no refresh token: no refresh call was sent.
C14_Witness ==
    \E t \in Threads :
        /\ pc[t] = "sending"
        /\ auth[cl[t]]
        /\ NoRefreshPath(store, valid)
        /\ store["OAUTH_EXPIRES_AT"] = 0
        /\ refreshCalls[t] = 0
        /\ hdr[t].bearer = store["OAUTH_TOKEN"]
        /\ hdr[t].bearer # None

\* Field k is unset in the store and present in the file.
Fillable(k) == store[k] = None /\ file.exists /\ k \in DOMAIN file.data
\* CLIENT_ID and CLIENT_SECRET are both set: load_config returns at once.
BothIdsSet == store["CLIENT_ID"] # None /\ store["CLIENT_SECRET"] # None

\* C15 as stated: the hook's load fills every field that is unset in the
\* store and present in the file, whatever the other fields hold, and a
\* request sent right after carries the file's token when the store had none.
C15_LoadFillsEveryUnsetField ==
    [][\A t \in Threads :
        (pc[t] = "hook" /\ Moved(t)) =>
            /\ \A k \in Keys : Fillable(k) => store'[k] = file.data[k]
            /\ (pc'[t] = "sending" /\ Fillable("OAUTH_TOKEN")) =>
                    hdr'[t].bearer = file.data["OAUTH_TOKEN"]
      ]_vars

\* C15: the hook's load fills every field that is unset in the store and
\* present in the file unless CLIENT_ID and CLIENT_SECRET are both set, and
\* then it changes nothing: the request is sent with the token the store had.
C15_LoadFillsUnlessIdsSet ==
    [][\A t \in Threads :
        (pc[t] = "hook" /\ Moved(t)) =>
            IF BothIdsSet
            THEN /\ store' = store
                 /\ pc'[t] = "sending" => hdr'[t].bearer = store["OAUTH_TOKEN"]
            ELSE /\ \A k \in Keys : Fillable(k) => store'[k] = file.data[k]
                 /\ (pc'[t] = "sending" /\ Fillable("OAUTH_TOKEN")) =>
                        hdr'[t].bearer = file.data["OAUTH_TOKEN"]
      ]_vars
\* A request is on the wire with the token and the client id the hook's load
\* took from the file.
C15_Witness ==
    \E t \in Threads :
        /\ pc[t] = "sending"
        /\ auth[cl[t]]
        /\ file.exists
        /\ store["CLIENT_ID"] = FileVal("CLIENT_ID")
        /\ store["OAUTH_TOKEN"] = FileVal("OAUTH_TOKEN")
        /\ hdr[t].bearer = FileVal("OAUTH_TOKEN")
        /\ hdr[t].key = FileVal("CLIENT_ID")

\* C16: when a refresh call is answered with a token and the step goes on,
\* every field set in the store is in the file with the store's value, and
\* load_config on a store with no field set gives every one of them back.
C16_RefreshPersistsFullSet ==
    [][\A t \in Threads :
        (pc[t] = "refreshing" /\ Moved(t) /\ pc'[t] # "done"
         /\ refresh_token(store, valid, refreshResp'[t]).outcome = "stored") =>
            \A k \in Keys : store'[k] # None =>
                /\ file'.exists
                /\ k \in DOMAIN file'.data
                /\ file'.data[k] = store'[k]
                /\ load_config(EmptyStore, file')[k] = store'[k]
      ]_vars

\* A status outside 200..299 that the error map does not hold.
UnmappedFailure(status) ==
    (status < 200 \/ status > 299) /\ status \notin DOMAIN error_map

\* C17: a get / post / put / delete answered with a status outside 2xx that
\* the error map does not hold raises an error holding the response, and
\* returns no payload.
C17_UnmappedStatusRaises ==
    \A t \in Threads :
        (pc[t] = "done" /\ op[t] \in Methods /\ answered[t]
         /\ UnmappedFailure(lastResp[t].status_code)) =>
            /\ result[t].tag = "raise"
            /\ result[t].response = lastResp[t]

C19_LoopEndsOnlyOnTerminalStatus ==
    [][\A t \in Threads :
        PollAnswered(t) =>
            /\ pc'[t] = "done" <=> lastResp'[t].status_code \notin {400, 429}
            /\ pc'[t] = "done" => dev'[t].polls = dev[t].polls
            /\ pc'[t] # "done" => dev'[t].polls = dev[t].polls + 1
      ]_vars

\* The token, refresh token and expiry of the n-th grant.
GrantTriple(n) == <<GrantItems(n).access_token, GrantItems(n).refresh_token,
                    GrantItems(n).created_at + GrantItems(n).expires_in>>
\* The grant that is the body of a response.
GrantOf(resp) == IF resp.content = GrantBodies[1] THEN 1 ELSE 2

\* C20: nothing orders the authentication steps of two requests on one
\* store: a thread that gets a grant and goes on writes that grant's token,
\* refresh token and expiry over the store and the file, whichever grants
\* the provider has accepted since and whatever another thread wrote.
C20_LastWriterWins ==
    [][\A t \in Threads :
        (pc[t] = "refreshing" /\ pc'[t] = "sending"
         /\ refreshResp[t].status_code = 200) =>
            /\ Triple(store') = GrantTriple(GrantOf(refreshResp[t]))
            /\ file'.exists
            /\ Triple(file'.data) = GrantTriple(GrantOf(refreshResp[t]))
            /\ valid'
      ]_vars
\* The lost update: both threads sent a refresh call with the same refresh
\* token, the provider accepted both, and store and file hold the first
\* grant, not the second, which is the one the provider accepted last.
C20_Witness ==
    /\ accepted = 2
    /\ \A t \in Threads :
        /\ pc[t] = "sending"
        /\ refreshCalls[t] = 1
        /\ refreshResp[t].status_code = 200
    /\ pre[1].sent = pre[2].sent
    /\ pre[1].sent # None
    /\ Triple(store) = GrantTriple(1)
    /\ Triple(file.data) = GrantTriple(1)
    /\ GrantTriple(1) # GrantTriple(accepted)

====
